---- MODULE Spec2Model ----
(***************************************************************************)
(* A model of avionix's ChartBuilder (chart generation and the install /   *)
(* upgrade / uninstall orchestration around the helm binary) and of the    *)
(* HelmYaml structural serializer.                                         *)
(*                                                                         *)
(* Every public method of ChartBuilder is one action.  The code is         *)
(* sequential, so a method is a function from the state before the call    *)
(* and the answers of the external tool to the state after it; the steps   *)
(* it takes (file system operations, presence queries, commands issued)    *)
(* are recorded in order in `log`, and the way the call ended in `raised`. *)
(***************************************************************************)
EXTENDS Integers, Sequences, FiniteSets, TLC

VARIABLES
    chart_info,           \* self.chart_info: [name, dependencies]
    kubernetes_objects,   \* self.kubernetes_objects: the kinds, in order
    chart_folder_path,    \* self.chart_folder_path
    templates_directory,  \* self.__templates_directory
    chart_yaml,           \* self.__chart_yaml
    keep_chart,           \* self.__keep_chart
    namespace,            \* self.__namespace
    files,                \* the file system: file path -> content
    dirs,                 \* the file system: the directories
    options,              \* the caller's options mapping (None: the caller passes none)
    passed,               \* the mapping as it was when the last call was made
    op,                   \* the last method called
    log,                  \* what the last call did, in order
    raised,               \* how the last call ended
    obj,                  \* serializer: the tagged object (its attribute mapping)
    out,                  \* serializer: the last result of to_dict, if any
    heap,                 \* serializer: the objects in memory, address -> cell
    self                  \* serializer: the address of the tagged object

vars == <<chart_info, kubernetes_objects, chart_folder_path, templates_directory,
          chart_yaml, keep_chart, namespace, files, dirs, options, passed, op,
          log, raised, obj, out, heap, self>>

builder_vars == <<chart_info, kubernetes_objects, chart_folder_path,
                  templates_directory, chart_yaml, keep_chart, namespace>>

yaml_vars == <<obj, out, heap, self>>

-----------------------------------------------------------------------------
(* Optional values: Python's None is the empty tuple, a value x is <<x>>.  *)

None == <<>>

Some(x) == <<x>>

(* Python truthiness of an Optional[str]: None and "" are falsy. *)
Truthy(v) == v # None /\ v[1] # ""

-----------------------------------------------------------------------------
(* Bounds and the values the inputs are drawn from.                        *)

MaxObjects == 2

ChartName == "test"

Kinds == {"Pod", "ConfigMap"}

DependencyLists == {<<>>, <<"grafana">>}

OutputDirectories == {None, Some(""), Some("out")}

Namespaces == {None, Some("ns")}

(* The items a caller's mapping is made of: a flag with a value and the *)
(* flag upgrade_chart looks for, which has none.                        *)
OptionItems == {<<"timeout", Some("30s")>>, <<"dependency-update", None>>}

SeqsUpTo(S, n) == UNION {[1..k -> S] : k \in 0..n}

ObjectLists == SeqsUpTo(Kinds, MaxObjects)

(* A mapping is its items in insertion order, the keys distinct. *)
Mappings ==
    {o \in SeqsUpTo(OptionItems, Cardinality(OptionItems)) :
        \A i, j \in 1..Len(o) : i # j => o[i][1] # o[j][1]}

OptionArgs == {None} \cup {Some(o) : o \in Mappings}

(* For the rendering of options on its own: flags with no value, with an *)
(* empty value and with a value, in either order.                        *)
FlagNames == {"wait", "timeout"}

FlagValues == {None, Some(""), Some("30s")}

FlagMappings ==
    {o \in SeqsUpTo(FlagNames \X FlagValues, Cardinality(FlagNames)) :
        \A i, j \in 1..Len(o) : i # j => o[i][1] # o[j][1]}

FlagArgs == {None} \cup {Some(o) : o \in FlagMappings}

(* What a command handed to custom_check_output came back with: success, *)
(* or a CalledProcessError whose output ErrorFactory knows or does not.   *)
CmdResults == {"success", "known_failure", "unknown_failure"}

Cwd == "/cwd"

-----------------------------------------------------------------------------
(* Paths are sequences of components, relative to the working directory.   *)

IsPrefix(p, q) == Len(p) <= Len(q) /\ SubSeq(q, 1, Len(p)) = p

Parent(p) == SubSeq(p, 1, Len(p) - 1)

RECURSIVE PathStr(_)
PathStr(p) ==
    IF Len(p) = 0 THEN "."
    ELSE IF Len(p) = 1 THEN p[1]
    ELSE PathStr(Parent(p)) \o "/" \o p[Len(p)]

(* Path.resolve(): the absolute path. *)
resolve(p) == <<Cwd>> \o p

-----------------------------------------------------------------------------
(* The run of one call: the file system, the log, the caller's mapping and *)
(* the exception in flight ("" while the call runs normally).              *)

Run == [files |-> files, dirs |-> dirs, log |-> <<>>, raised |-> "",
        options |-> options]

(* An entry of the log: what was done (ev), to what (arg: a path, or the *)
(* words of a command), and what came back (res).                       *)
Emit(m, ev, arg, res) ==
    [m EXCEPT !.log = Append(m.log, [ev |-> ev, arg |-> arg, res |-> res])]

Raise(m, error) == [m EXCEPT !.raised = error]

exists(m, p) == p \in m.dirs \/ p \in DOMAIN m.files

rmtree(m, p) ==
    LET kept == {q \in DOMAIN m.files : ~IsPrefix(p, q)}
        m1 == [m EXCEPT !.dirs = {d \in m.dirs : ~IsPrefix(p, d)},
                        !.files = [q \in kept |-> m.files[q]]]
    IN  Emit(m1, "rmtree", p, "done")

makedirs(m, p) ==
    LET m1 == [m EXCEPT !.dirs = m.dirs \cup {SubSeq(p, 1, k) : k \in 1..Len(p)}]
    IN  Emit(m1, "makedirs", p, "done")

write(m, p, content) ==
    LET m1 == [m EXCEPT !.files = [q \in DOMAIN m.files \cup {p} |->
                                     IF q = p THEN content ELSE m.files[q]]]
    IN  Emit(m1, "write", p, "done")

-----------------------------------------------------------------------------
(* ChartBuilder.__init__                                                    *)

Construct(objects, dependencies, output_directory, keep, ns) ==
    LET folder == <<ChartName>>
        under == IF Truthy(output_directory) THEN <<output_directory[1]>> ELSE <<>>
    IN  /\ chart_info' = [name |-> ChartName, dependencies |-> dependencies]
        /\ kubernetes_objects' = objects
        /\ chart_folder_path' = under \o folder
        /\ templates_directory' = under \o folder \o <<"templates">>
        /\ chart_yaml' = under \o folder \o <<"Chart.yaml">>
        /\ keep_chart' = keep
        /\ namespace' = ns

-----------------------------------------------------------------------------
(* Chart generation                                                         *)

delete_chart_directory(m) ==
    IF exists(m, <<chart_info.name>>) THEN rmtree(m, <<chart_info.name>>) ELSE m

(* Names that count from one. *)
TemplateName_from_one(kind, n) == kind \o "-" \o ToString(n + 1) \o ".yaml"

TemplateName(kind, n) == kind \o "-" \o ToString(n) \o ".yaml"

(* The loop of generate_chart from its i-th object on. *)
RECURSIVE WriteTemplates(_, _, _)
WriteTemplates(m, i, kind_count) ==
    IF i > Len(kubernetes_objects) THEN m
    ELSE LET kind == kubernetes_objects[i]
             n == IF kind \notin DOMAIN kind_count THEN 0 ELSE kind_count[kind] + 1
             counted == [k \in DOMAIN kind_count \cup {kind} |->
                            IF k = kind THEN n ELSE kind_count[k]]
             m1 == write(m, templates_directory \o <<TemplateName(kind, n)>>,
                         <<kind>>)
         IN  WriteTemplates(m1, i + 1, counted)

RECURSIVE ValuesText(_, _)
ValuesText(dependencies, i) ==
    IF i > Len(dependencies) THEN <<>>
    ELSE <<dependencies[i], "\n">> \o ValuesText(dependencies, i + 1)

get_values_yaml == ValuesText(chart_info.dependencies, 1)

generate_chart(m) ==
    LET m1 == delete_chart_directory(m)
        m2 == makedirs(m1, templates_directory)
        m3 == write(m2, chart_yaml, <<"Chart", chart_info.name>>)
        m4 == WriteTemplates(m3, 1, <<>>)
    IN  write(m4, Parent(templates_directory) \o <<"values.yaml">>,
              get_values_yaml)

update_dependencies(m) ==
    LET RECURSIVE AddRepos(_, _)
        AddRepos(mm, i) ==
            IF i > Len(chart_info.dependencies) THEN mm
            ELSE AddRepos(Emit(mm, "add_repo", <<chart_info.dependencies[i]>>,
                               "done"),
                          i + 1)
    IN  AddRepos(m, 1)

-----------------------------------------------------------------------------
(* Command construction                                                     *)

(* The loop with a value after every flag that is not None. *)
RECURSIVE OptionTokens_every_value(_, _)
OptionTokens_every_value(o, i) ==
    IF i > Len(o) THEN <<>>
    ELSE <<"--" \o o[i][1]>>
         \o (IF o[i][2] # None THEN <<o[i][2][1]>> ELSE <<>>)
         \o OptionTokens_every_value(o, i + 1)

RECURSIVE OptionTokens(_, _)
OptionTokens(o, i) ==
    IF i > Len(o) THEN <<>>
    ELSE <<"--" \o o[i][1]>>
         \o (IF Truthy(o[i][2]) THEN <<o[i][2][1]>> ELSE <<>>)
         \o OptionTokens(o, i + 1)

(* The option string, as the words that single spaces separate in it. *)
parse_options(opts) == IF opts = None THEN <<>> ELSE OptionTokens(opts[1], 1)

(* No namespace flag, whatever the builder was given. *)
handle_namespace_dropped(command) == command

handle_namespace(command) ==
    IF namespace # None THEN command \o <<"-n", namespace[1]>> ELSE command

get_helm_install_command(opts) ==
    handle_namespace(<<"helm", "install", chart_info.name,
                       PathStr(resolve(chart_folder_path))>>)
    \o parse_options(opts)

get_helm_uninstall_command(opts) ==
    handle_namespace(<<"helm", "uninstall", chart_info.name>>)
    \o parse_options(opts)

get_helm_upgrade_command(opts) ==
    handle_namespace(<<"helm", "upgrade", chart_info.name,
                       PathStr(chart_folder_path)>>)
    \o parse_options(opts)

-----------------------------------------------------------------------------
(* The external tool                                                        *)

(* custom_check_output: runs the command; a failure is a CalledProcessError. *)
custom_check_output(m, command, result) ==
    LET m1 == Emit(m, "cmd", command, result)
    IN  IF result = "success" THEN m1 ELSE Raise(m1, "CalledProcessError")

(* The is_installed property: one listing of the releases, which reports *)
(* whether the chart's name is among them (seen).                         *)
is_installed(m, seen) ==
    Emit(m, "is_installed", namespace, IF seen THEN "present" ELSE "absent")

(* A check that lists the releases and goes on whatever it finds. *)
check_if_installed_unchecked(m, seen) == is_installed(m, seen)

check_if_installed(m, seen) ==
    LET m1 == is_installed(m, seen)
    IN  IF ~seen THEN Raise(m1, "ChartNotInstalledError") ELSE m1

-----------------------------------------------------------------------------
(* uninstall                                                                *)

run_helm_uninstall(m, opts, result) ==
    custom_check_output(m, get_helm_uninstall_command(None), result)

(* An uninstall that does not ask whether the release is there. *)
handle_uninstallation_unchecked(m, opts, seen, result) ==
    run_helm_uninstall(m, opts, result)

handle_uninstallation(m, opts, seen, result) ==
    LET m1 == check_if_installed(m, seen)
    IN  IF m1.raised # "" THEN m1 ELSE run_helm_uninstall(m1, opts, result)

(* An uninstall that removes the chart directory when it is done. *)
uninstall_chart_then_delete(m, opts, seen, result) ==
    LET m1 == handle_uninstallation(m, opts, seen, result)
    IN  IF m1.raised # "" THEN m1 ELSE delete_chart_directory(m1)

uninstall_chart(m, opts, seen, result) == handle_uninstallation(m, opts, seen, result)

-----------------------------------------------------------------------------
(* install                                                                  *)

run_helm_install(m, opts, result) ==
    custom_check_output(m, get_helm_install_command(opts), result)

(* A handler that cleans up before it looks at what the failure was. *)
handle_installation_cleanup_first(m, opts, result, seen1, seen2, unresult) ==
    LET m1 == run_helm_install(m, opts, result)
    IN  IF m1.raised # "CalledProcessError" THEN m1
        ELSE LET m2 == is_installed(Raise(m1, ""), seen1)
                 m3 == IF seen1
                       THEN uninstall_chart(m2, None, seen2, unresult)
                       ELSE m2
             IN  IF m3.raised # "" THEN m3
                 ELSE IF result = "known_failure" THEN Raise(m3, "typed_error")
                 ELSE Raise(m3, "post_uninstall_error")

(* A handler that asks whether the release is there and cleans up nothing. *)
handle_installation_no_cleanup(m, opts, result, seen1, seen2, unresult) ==
    LET m1 == run_helm_install(m, opts, result)
    IN  IF m1.raised # "CalledProcessError" THEN m1
        ELSE IF result = "known_failure" THEN Raise(Raise(m1, ""), "typed_error")
        ELSE Raise(is_installed(Raise(m1, ""), seen1), "post_uninstall_error")

(* seen1 answers the handler's own presence query, seen2 and unresult the *)
(* query and the command of the cleanup uninstall.                        *)
handle_installation(m, opts, result, seen1, seen2, unresult) ==
    LET m1 == run_helm_install(m, opts, result)
    IN  IF m1.raised # "CalledProcessError" THEN m1
        ELSE LET caught == Raise(m1, "")
             IN  IF result = "known_failure" THEN Raise(caught, "typed_error")
                 ELSE LET m2 == is_installed(caught, seen1)
                          m3 == IF seen1
                                THEN uninstall_chart(m2, None, seen2, unresult)
                                ELSE m2
                      IN  IF m3.raised # "" THEN m3
                          ELSE Raise(m3, "post_uninstall_error")

(* An install that removes the chart directory however it ends. *)
install_chart_always_deletes(m, result, seen1, seen2, unresult) ==
    LET m1 == generate_chart(m)
        m2 == update_dependencies(m1)
        m3 == handle_installation(m2, m2.options, result, seen1, seen2, unresult)
    IN  IF ~keep_chart THEN Raise(delete_chart_directory(m3), m3.raised) ELSE m3

install_chart(m, result, seen1, seen2, unresult) ==
    LET m1 == generate_chart(m)
        m2 == update_dependencies(m1)
        m3 == handle_installation(m2, m2.options, result, seen1, seen2, unresult)
    IN  IF m3.raised # "" THEN m3
        ELSE IF ~keep_chart THEN delete_chart_directory(m3) ELSE m3

-----------------------------------------------------------------------------
(* upgrade                                                                  *)

run_helm_upgrade(m, opts, result) ==
    custom_check_output(m, get_helm_upgrade_command(opts), result)

(* An upgrade handler that cleans up as the install handler does. *)
handle_upgrade_with_cleanup(m, opts, result) ==
    LET m1 == run_helm_upgrade(m, opts, result)
    IN  IF m1.raised # "CalledProcessError" THEN m1
        ELSE IF result = "known_failure" THEN Raise(m1, "typed_error")
        ELSE Raise(run_helm_uninstall(Raise(m1, ""), None, "success"),
                   "post_uninstall_error")

handle_upgrade(m, opts, result) ==
    LET m1 == run_helm_upgrade(m, opts, result)
    IN  IF m1.raised # "CalledProcessError" THEN m1
        ELSE IF result = "known_failure" THEN Raise(m1, "typed_error")
        ELSE Raise(m1, "post_uninstall_error")

HasKey(o, key) == \E i \in 1..Len(o) : o[i][1] = key

(* A del that deletes nothing. *)
DelKey_nothing(o, key) == o

(* del mapping[key] *)
DelKey(o, key) ==
    LET i == CHOOSE j \in 1..Len(o) : o[j][1] = key
    IN  SubSeq(o, 1, i - 1) \o SubSeq(o, i + 1, Len(o))

(* An upgrade that deletes the key from a copy of the caller's mapping. *)
upgrade_chart_on_a_copy(m, seen, depresult, result) ==
    LET update_depenedencies == "dependency-update"
        m1 == check_if_installed(m, seen)
        m2 == generate_chart(m1)
        m3 == update_dependencies(m2)
        m4 == custom_check_output(
                  m3,
                  <<"helm", "dependency", "update",
                    PathStr(resolve(chart_folder_path))>>,
                  depresult)
    IN  IF m1.raised # "" THEN m1
        ELSE IF m3.options # None /\ HasKey(m3.options[1], update_depenedencies)
        THEN IF m4.raised # "" THEN m4
             ELSE handle_upgrade(m4, Some(DelKey(m4.options[1], update_depenedencies)),
                                 result)
        ELSE handle_upgrade(m3, m3.options, result)

(* depresult answers the dependency update command, if one is issued. *)
upgrade_chart(m, seen, depresult, result) ==
    LET update_depenedencies == "dependency-update"
        m1 == check_if_installed(m, seen)
        m2 == generate_chart(m1)
        m3 == update_dependencies(m2)
        m4 == custom_check_output(
                  m3,
                  <<"helm", "dependency", "update",
                    PathStr(resolve(chart_folder_path))>>,
                  depresult)
        m5 == [m4 EXCEPT !.options = Some(DelKey(m4.options[1], update_depenedencies))]
    IN  IF m1.raised # "" THEN m1
        ELSE IF m3.options # None /\ HasKey(m3.options[1], update_depenedencies)
        THEN IF m4.raised # "" THEN m4 ELSE handle_upgrade(m5, m5.options, result)
        ELSE handle_upgrade(m3, m3.options, result)

-----------------------------------------------------------------------------
(* HelmYaml: the structural serializer.                                     *)
(*                                                                         *)
(* A value is a record [t, s, c]: t is its Python type, s the literal of a *)
(* scalar and c what a container holds.  A list holds the sequence of its  *)
(* elements; a dict holds its items [key, value] in insertion order; a     *)
(* HelmYaml object ("obj") holds its __dict__, the items of its attributes.*)

MaxNodes == 3

NoneValue == [t |-> "none", s |-> "None", c |-> <<>>]

StrValue(x) == [t |-> "str", s |-> x, c |-> <<>>]

IntValue(x) == [t |-> "int", s |-> ToString(x), c |-> <<>>]

BoolValue(x) == [t |-> "bool", s |-> IF x THEN "True" ELSE "False", c |-> <<>>]

ListValue(x) == [t |-> "list", s |-> "", c |-> x]

DictValue(x) == [t |-> "dict", s |-> "", c |-> x]

ObjValue(x) == [t |-> "obj", s |-> "", c |-> x]

Item(key, value) == [key |-> key, value |-> value]

Scalars == {NoneValue, StrValue(""), StrValue("a"), IntValue(0), BoolValue(FALSE)}

AttributeNames == {"a", "b"}

(* The values of n nodes, the sequences of values of n nodes in all, and *)
(* the items, under distinct keys, of n nodes in all.                     *)
RECURSIVE ValuesOfSize(_), ElementsOfSize(_), ItemsOfSize(_, _)
ValuesOfSize(n) ==
    IF n = 1 THEN Scalars \cup {ListValue(<<>>), DictValue(<<>>), ObjValue(<<>>)}
    ELSE {ListValue(x) : x \in ElementsOfSize(n - 1)}
         \cup {DictValue(x) : x \in ItemsOfSize(n - 1, AttributeNames)}
         \cup {ObjValue(x) : x \in ItemsOfSize(n - 1, AttributeNames)}

ElementsOfSize(n) ==
    IF n = 0 THEN {<<>>}
    ELSE UNION {{<<x>> \o rest : x \in ValuesOfSize(k), rest \in ElementsOfSize(n - k)} :
                k \in 1..n}

ItemsOfSize(n, keys) ==
    IF n = 0 THEN {<<>>}
    ELSE UNION {{<<Item(key, x)>> \o rest :
                    x \in ValuesOfSize(k), rest \in ItemsOfSize(n - k, keys \ {key})} :
                key \in keys, k \in 1..n}

(* The tagged objects whose attributes have at most max nodes in all. *)
TaggedObjects(max) ==
    {ObjValue(x) : x \in UNION {ItemsOfSize(n, AttributeNames) : n \in 0..max}}

(* Python's `not value`. *)
Falsy(value) ==
    CASE value.t = "none" -> TRUE
      [] value.t = "str" -> value.s = ""
      [] value.t = "int" -> value.s = ToString(0)
      [] value.t = "bool" -> value.s = "False"
      [] value.t \in {"list", "dict"} -> value.c = <<>>
      [] OTHER -> FALSE

RECURSIVE clean_nested(_), to_dict(_), CleanList(_, _), CleanDict(_, _)

(* The list loop without the look at what the cleaning left. *)
RECURSIVE CleanList_keeps_emptied(_, _)
CleanList_keeps_emptied(elements, i) ==
    IF i > Len(elements) THEN <<>>
    ELSE LET value == elements[i]
             appended ==
                 IF Falsy(value) THEN <<>>
                 ELSE IF value.t \in {"dict", "list"} THEN <<clean_nested(value)>>
                 ELSE IF value.t = "obj" THEN <<to_dict(value)>>
                 ELSE <<value>>
         IN  appended \o CleanList_keeps_emptied(elements, i + 1)

(* The loop over a list from its i-th element on: what it appends. *)
CleanList(elements, i) ==
    IF i > Len(elements) THEN <<>>
    ELSE LET value == elements[i]
             appended ==
                 IF Falsy(value) THEN <<>>
                 ELSE IF value.t \in {"dict", "list"}
                 THEN LET cleaned_dict_or_list == clean_nested(value)
                      IN  IF ~Falsy(cleaned_dict_or_list)
                          THEN <<clean_nested(value)>> ELSE <<>>
                 ELSE IF value.t = "obj"
                 THEN LET cleaned_dict_or_list == to_dict(value)
                      IN  IF ~Falsy(cleaned_dict_or_list)
                          THEN <<cleaned_dict_or_list>> ELSE <<>>
                 ELSE <<value>>
         IN  appended \o CleanList(elements, i + 1)

(* The dict loop without the look at what the cleaning left. *)
RECURSIVE CleanDict_keeps_emptied(_, _)
CleanDict_keeps_emptied(items, i) ==
    IF i > Len(items) THEN <<>>
    ELSE LET key == items[i].key
             value == items[i].value
             set ==
                 IF Falsy(value) THEN <<>>
                 ELSE IF value.t \in {"dict", "list"}
                 THEN <<Item(key, clean_nested(value))>>
                 ELSE IF value.t = "obj" THEN <<Item(key, to_dict(value))>>
                 ELSE <<Item(key, value)>>
         IN  set \o CleanDict_keeps_emptied(items, i + 1)

(* The loop over the items of a dict from the i-th on: the items it sets. *)
CleanDict(items, i) ==
    IF i > Len(items) THEN <<>>
    ELSE LET key == items[i].key
             value == items[i].value
             set ==
                 IF Falsy(value) THEN <<>>
                 ELSE IF value.t \in {"dict", "list"}
                 THEN LET cleaned_dict_or_list == clean_nested(value)
                      IN  IF ~Falsy(cleaned_dict_or_list)
                          THEN <<Item(key, cleaned_dict_or_list)>> ELSE <<>>
                 ELSE IF value.t = "obj"
                 THEN LET cleaned_dict_or_list == to_dict(value)
                      IN  IF ~Falsy(cleaned_dict_or_list)
                          THEN <<Item(key, cleaned_dict_or_list)>> ELSE <<>>
                 ELSE <<Item(key, value)>>
         IN  set \o CleanDict(items, i + 1)

clean_nested(dictionary_or_list) ==
    IF dictionary_or_list.t = "list" THEN ListValue(CleanList(dictionary_or_list.c, 1))
    ELSE IF dictionary_or_list.t = "dict" THEN DictValue(CleanDict(dictionary_or_list.c, 1))
    ELSE NoneValue

(* The copy of __dict__ is a dict of the same items. *)
to_dict(object) == clean_nested(DictValue(object.c))

-----------------------------------------------------------------------------
(* The serializer in memory.  The heap is a sequence of cells, a cell's    *)
(* address its index.  A cell is a value whose c holds addresses: a list   *)
(* the addresses of its elements, a dict or an object items [key, value]   *)
(* with the address of the value.  An object's cell is its __dict__.       *)

alloc(h, cell) == [h |-> Append(h, cell), a |-> Len(h) + 1]

(* list.append(x) and dict[key] = x, for a key the dict does not have. *)
append(h, list, x) == [h EXCEPT ![list].c = Append(@, x)]

setitem(h, dict, key, x) == [h EXCEPT ![dict].c = Append(@, Item(key, x))]

(* The address the i-th element or item value of the cell at a is at. *)
ChildAt(h, a, i) == IF h[a].t = "list" THEN h[a].c[i] ELSE h[a].c[i].value

(* A cell of the cell at a, with its children at the addresses given. *)
WithChildren(cell, addresses) ==
    [cell EXCEPT !.c = IF cell.t = "list" THEN addresses
                       ELSE [i \in 1..Len(addresses) |->
                                Item(cell.c[i].key, addresses[i])]]

(* A value put in memory, its parts first: the address of the value is *)
(* the last one allocated.                                              *)
RECURSIVE Store(_, _), StoreEach(_, _)
Store(h, value) ==
    LET parts == StoreEach(h, [i \in 1..Len(value.c) |->
                                  IF value.t = "list" THEN value.c[i]
                                  ELSE value.c[i].value])
    IN  alloc(parts.h, WithChildren(value, parts.a))

StoreEach(h, values) ==
    IF values = <<>> THEN [h |-> h, a |-> <<>>]
    ELSE LET first == Store(h, Head(values))
             rest == StoreEach(first.h, Tail(values))
         IN  [h |-> rest.h, a |-> <<first.a>> \o rest.a]

(* copy.deepcopy: None, strings, numbers and booleans are returned as they *)
(* are; a list, a dict or an object is a new cell whose children are deep  *)
(* copies.                                                                 *)
RECURSIVE deepcopy(_, _), DeepcopyEach(_, _, _)
deepcopy(h, a) ==
    IF h[a].t \notin {"list", "dict", "obj"} THEN [h |-> h, a |-> a]
    ELSE LET parts == DeepcopyEach(h, a, 1)
         IN  alloc(parts.h, WithChildren(h[a], parts.a))

DeepcopyEach(h, a, i) ==
    IF i > Len(h[a].c) THEN [h |-> h, a |-> <<>>]
    ELSE LET first == deepcopy(h, ChildAt(h, a, i))
             rest == DeepcopyEach(first.h, a, i + 1)
         IN  [h |-> rest.h, a |-> <<first.a>> \o rest.a]

RECURSIVE clean_nested_at(_, _), to_dict_at(_, _), CleanListAt(_, _, _, _),
          CleanDictAt(_, _, _, _)

(* The loop over the list at a from its i-th element on, appending to *)
(* cleaned_list: the heap after it.                                    *)
CleanListAt(h, a, cleaned_list, i) ==
    IF i > Len(h[a].c) THEN h
    ELSE LET value == h[a].c[i]
         IN  IF Falsy(h[value]) THEN CleanListAt(h, a, cleaned_list, i + 1)
             ELSE IF h[value].t \in {"dict", "list"}
             THEN LET cleaned_dict_or_list == clean_nested_at(h, value)
                      again == clean_nested_at(cleaned_dict_or_list.h, value)
                  IN  IF ~Falsy(cleaned_dict_or_list.h[cleaned_dict_or_list.a])
                      THEN CleanListAt(append(again.h, cleaned_list, again.a),
                                       a, cleaned_list, i + 1)
                      ELSE CleanListAt(cleaned_dict_or_list.h, a, cleaned_list, i + 1)
             ELSE IF h[value].t = "obj"
             THEN LET cleaned_dict_or_list == to_dict_at(h, value)
                  IN  IF ~Falsy(cleaned_dict_or_list.h[cleaned_dict_or_list.a])
                      THEN CleanListAt(append(cleaned_dict_or_list.h, cleaned_list,
                                              cleaned_dict_or_list.a),
                                       a, cleaned_list, i + 1)
                      ELSE CleanListAt(cleaned_dict_or_list.h, a, cleaned_list, i + 1)
             ELSE CleanListAt(append(h, cleaned_list, value), a, cleaned_list, i + 1)

(* The loop over the items of the dict at a from the i-th on, setting the *)
(* keys of cleaned_dict: the heap after it.                                *)
CleanDictAt(h, a, cleaned_dict, i) ==
    IF i > Len(h[a].c) THEN h
    ELSE LET key == h[a].c[i].key
             value == h[a].c[i].value
         IN  IF Falsy(h[value]) THEN CleanDictAt(h, a, cleaned_dict, i + 1)
             ELSE IF h[value].t \in {"dict", "list"}
             THEN LET cleaned_dict_or_list == clean_nested_at(h, value)
                  IN  IF ~Falsy(cleaned_dict_or_list.h[cleaned_dict_or_list.a])
                      THEN CleanDictAt(setitem(cleaned_dict_or_list.h, cleaned_dict, key,
                                               cleaned_dict_or_list.a),
                                       a, cleaned_dict, i + 1)
                      ELSE CleanDictAt(cleaned_dict_or_list.h, a, cleaned_dict, i + 1)
             ELSE IF h[value].t = "obj"
             THEN LET cleaned_dict_or_list == to_dict_at(h, value)
                  IN  IF ~Falsy(cleaned_dict_or_list.h[cleaned_dict_or_list.a])
                      THEN CleanDictAt(setitem(cleaned_dict_or_list.h, cleaned_dict, key,
                                               cleaned_dict_or_list.a),
                                       a, cleaned_dict, i + 1)
                      ELSE CleanDictAt(cleaned_dict_or_list.h, a, cleaned_dict, i + 1)
             ELSE CleanDictAt(setitem(h, cleaned_dict, key, value), a, cleaned_dict, i + 1)

(* The heap after the call and the address of what it returns. *)
clean_nested_at(h, a) ==
    IF h[a].t = "list"
    THEN LET cleaned_list == alloc(h, ListValue(<<>>))
         IN  [h |-> CleanListAt(cleaned_list.h, a, cleaned_list.a, 1),
              a |-> cleaned_list.a]
    ELSE IF h[a].t = "dict"
    THEN LET cleaned_dict == alloc(h, DictValue(<<>>))
         IN  [h |-> CleanDictAt(cleaned_dict.h, a, cleaned_dict.a, 1),
              a |-> cleaned_dict.a]
    ELSE alloc(h, NoneValue)

(* to_dict that keeps what it cleaned as the attributes of the object. *)
to_dict_at_in_place(h, a) ==
    LET parts == DeepcopyEach(h, a, 1)
        dictionary == alloc(parts.h, WithChildren(DictValue(h[a].c), parts.a))
        cleaned == clean_nested_at(dictionary.h, dictionary.a)
    IN  [h |-> [cleaned.h EXCEPT ![a].c = cleaned.h[cleaned.a].c], a |-> cleaned.a]

(* to_dict of the object at a: the deep copy of its __dict__ is a new dict *)
(* of deep copies of the attribute values.                                 *)
to_dict_at(h, a) ==
    LET parts == DeepcopyEach(h, a, 1)
        dictionary == alloc(parts.h, WithChildren(DictValue(h[a].c), parts.a))
    IN  clean_nested_at(dictionary.h, dictionary.a)

-----------------------------------------------------------------------------
(* The state after a call.                                                  *)

Finish(name, m) ==
    /\ files' = m.files
    /\ dirs' = m.dirs
    /\ options' = m.options
    /\ passed' = options
    /\ op' = name
    /\ log' = m.log
    /\ raised' = IF m.raised = "" THEN "returned" ELSE m.raised

Init ==
    /\ \E objects \in ObjectLists, dependencies \in DependencyLists,
          output_directory \in OutputDirectories, keep \in BOOLEAN,
          ns \in Namespaces :
            /\ chart_info = [name |-> ChartName, dependencies |-> dependencies]
            /\ kubernetes_objects = objects
            /\ chart_folder_path =
                 (IF Truthy(output_directory) THEN <<output_directory[1]>> ELSE <<>>)
                 \o <<ChartName>>
            /\ templates_directory = chart_folder_path \o <<"templates">>
            /\ chart_yaml = chart_folder_path \o <<"Chart.yaml">>
            /\ keep_chart = keep
            /\ namespace = ns
    /\ files = <<>>
    /\ dirs = {}
    /\ options \in OptionArgs
    /\ passed = options
    /\ op = "__init__"
    /\ log = <<>>
    /\ raised = ""
    /\ obj = ObjValue(<<>>)
    /\ out = None
    /\ heap = <<>>
    /\ self = 0

(* Another builder for the same chart, destination and settings, with *)
(* fewer objects: the first n of them.                                 *)
NewBuilder ==
    /\ \E n \in 0..(Len(kubernetes_objects) - 1) :
          Construct(SubSeq(kubernetes_objects, 1, n), chart_info.dependencies,
                    IF Len(chart_folder_path) > 1
                    THEN Some(chart_folder_path[1]) ELSE None,
                    keep_chart, namespace)
    /\ Finish("__init__", Run)
    /\ UNCHANGED yaml_vars

GenerateChart ==
    /\ Finish("generate_chart", generate_chart(Run))
    /\ UNCHANGED <<builder_vars, yaml_vars>>

(* An answer the call never asks for is fixed, not drawn. *)
Unasked(asked, answer, default) == asked \/ answer = default

InstallChart ==
    /\ \E result, unresult \in CmdResults, seen1, seen2 \in BOOLEAN :
          /\ Unasked(result = "unknown_failure", seen1, FALSE)
          /\ Unasked(seen1, seen2, FALSE)
          /\ Unasked(seen2, unresult, "success")
          /\ Finish("install_chart",
                    install_chart(Run, result, seen1, seen2, unresult))
    /\ UNCHANGED <<builder_vars, yaml_vars>>

UpgradeChart ==
    /\ \E seen \in BOOLEAN, depresult, result \in CmdResults :
          /\ Unasked(seen /\ options # None /\ HasKey(options[1], "dependency-update"),
                     depresult, "success")
          /\ Unasked(seen /\ depresult = "success", result, "success")
          /\ Finish("upgrade_chart", upgrade_chart(Run, seen, depresult, result))
    /\ UNCHANGED <<builder_vars, yaml_vars>>

UninstallChart ==
    /\ \E seen \in BOOLEAN, result \in CmdResults :
          /\ Unasked(seen, result, "success")
          /\ Finish("uninstall_chart", uninstall_chart(Run, options, seen, result))
    /\ UNCHANGED <<builder_vars, yaml_vars>>

Next ==
    \/ NewBuilder
    \/ GenerateChart
    \/ InstallChart
    \/ UpgradeChart
    \/ UninstallChart

Spec == Init /\ [][Next]_vars

-----------------------------------------------------------------------------
(* The serializer on its own: one tagged object, serialized.                *)

InitYaml ==
    /\ chart_info = [name |-> ChartName, dependencies |-> <<>>]
    /\ kubernetes_objects = <<>>
    /\ chart_folder_path = <<ChartName>>
    /\ templates_directory = <<ChartName, "templates">>
    /\ chart_yaml = <<ChartName, "Chart.yaml">>
    /\ keep_chart = FALSE
    /\ namespace = None
    /\ files = <<>>
    /\ dirs = {}
    /\ options = None
    /\ passed = None
    /\ op = "__init__"
    /\ log = <<>>
    /\ raised = ""
    /\ obj \in TaggedObjects(MaxNodes)
    /\ out = None
    /\ heap = Store(<<>>, obj).h
    /\ self = Len(heap)

(* A call of to_dict on the object; what earlier calls allocated is gone. *)
ToDict ==
    /\ out' = Some(to_dict(obj))
    /\ heap' = to_dict_at(SubSeq(heap, 1, self), self).h
    /\ UNCHANGED <<builder_vars, files, dirs, options, passed, op, log, raised, obj,
                   self>>

(* The cleaning applied to what to_dict returned. *)
CleanAgain ==
    /\ out # None
    /\ out' = Some(clean_nested(out[1]))
    /\ UNCHANGED <<builder_vars, files, dirs, options, passed, op, log, raised, obj,
                   heap, self>>

NextYaml == ToDict \/ CleanAgain

SpecYaml == InitYaml /\ [][NextYaml]_vars

-----------------------------------------------------------------------------
(* The rendering of options on its own: a builder with no objects, and    *)
(* install_chart called with a mapping of flags.                           *)

InitOptions ==
    /\ \E dependencies \in DependencyLists, output_directory \in OutputDirectories,
          keep \in BOOLEAN, ns \in Namespaces :
            /\ chart_info = [name |-> ChartName, dependencies |-> dependencies]
            /\ kubernetes_objects = <<>>
            /\ chart_folder_path =
                 (IF Truthy(output_directory) THEN <<output_directory[1]>> ELSE <<>>)
                 \o <<ChartName>>
            /\ templates_directory = chart_folder_path \o <<"templates">>
            /\ chart_yaml = chart_folder_path \o <<"Chart.yaml">>
            /\ keep_chart = keep
            /\ namespace = ns
    /\ files = <<>>
    /\ dirs = {}
    /\ options \in FlagArgs
    /\ passed = options
    /\ op = "__init__"
    /\ log = <<>>
    /\ raised = ""
    /\ obj = ObjValue(<<>>)
    /\ out = None
    /\ heap = <<>>
    /\ self = 0

NextOptions == InstallChart

SpecOptions == InitOptions /\ [][NextOptions]_vars

-----------------------------------------------------------------------------
(* Reading the log of the last call.                                        *)

Steps == 1..Len(log)

IsCmd(e, verb) == e.ev = "cmd" /\ e.arg[2] = verb

IsQuery(e, res) == e.ev = "is_installed" /\ e.res = res

TouchesFiles(e) == e.ev \in {"rmtree", "makedirs", "write"}

-----------------------------------------------------------------------------
(* C1: an upgrade_chart whose presence check reports the release absent    *)
(* ends with the not-installed error, and the whole call is that one       *)
(* presence query: it deletes no directory, writes no file, registers no   *)
(* dependency and issues no command, and the file system is as it was.     *)
C1_UpgradeOfAbsentDoesNothing ==
    [][(op' = "upgrade_chart" /\ IsQuery(log'[1], "absent"))
       => /\ raised' = "ChartNotInstalledError"
          /\ \A i \in 1..Len(log') :
                /\ ~TouchesFiles(log'[i])
                /\ log'[i].ev # "add_repo"
                /\ log'[i].ev # "cmd"
          /\ files' = files
          /\ dirs' = dirs]_vars

(* An upgrade of an absent release, with a chart directory on disk, a *)
(* dependency to register and the dependency update flag passed.          *)
C1_Witness ==
    /\ op = "upgrade_chart"
    /\ IsQuery(log[1], "absent")
    /\ raised = "ChartNotInstalledError"
    /\ <<chart_info.name>> \in dirs
    /\ chart_info.dependencies # <<>>
    /\ passed # None /\ HasKey(passed[1], "dependency-update")

(* C2: when the install command fails and the failure is one the error     *)
(* factory knows, install_chart raises that typed error, and the failed    *)
(* command is the last thing the call did: no presence query, no uninstall.*)
C2_KnownInstallFailureIsRaisedAsIs ==
    \A i \in Steps :
        (op = "install_chart" /\ IsCmd(log[i], "install")
            /\ log[i].res = "known_failure")
        => /\ raised = "typed_error"
           /\ i = Len(log)
           /\ \A j \in Steps : log[j].ev # "is_installed" /\ ~IsCmd(log[j], "uninstall")

C2_Witness ==
    /\ op = "install_chart"
    /\ raised = "typed_error"
    /\ IsCmd(log[Len(log)], "install")
    /\ log[Len(log)].res = "known_failure"

(* C3: when the install command fails with a failure the error factory     *)
(* does not know and the release is reported present, then: the generic    *)
(* error is raised only after an uninstall command that succeeded; while   *)
(* the release is still reported present to the cleanup, the uninstall     *)
(* command is issued; and a failed uninstall command ends the call with    *)
(* its own error, never the generic one.                                   *)
C3_CleanupUninstallBeforeGenericError ==
    \A i \in Steps :
        (op = "install_chart" /\ IsCmd(log[i], "install")
            /\ log[i].res = "unknown_failure"
            /\ i < Len(log) /\ IsQuery(log[i + 1], "present"))
        => /\ raised \in {"post_uninstall_error", "CalledProcessError",
                          "ChartNotInstalledError"}
           /\ raised = "post_uninstall_error"
                => \E j \in Steps : /\ j > i + 1
                                    /\ IsCmd(log[j], "uninstall")
                                    /\ log[j].res = "success"
           /\ (i + 2 <= Len(log) /\ IsQuery(log[i + 2], "present"))
                => i + 3 <= Len(log) /\ IsCmd(log[i + 3], "uninstall")
           /\ \A j \in Steps :
                (IsCmd(log[j], "uninstall") /\ log[j].res # "success")
                => raised = "CalledProcessError" /\ j = Len(log)

(* The cleanup ran and the generic error followed it. *)
C3_Witness ==
    /\ op = "install_chart"
    /\ raised = "post_uninstall_error"
    /\ \E i \in Steps : IsCmd(log[i], "install") /\ log[i].res = "unknown_failure"
    /\ IsCmd(log[Len(log)], "uninstall")
    /\ log[Len(log)].res = "success"

(* C4 (as claimed): after generate_chart the files under the chart folder  *)
(* are exactly the files this run wrote, so nothing an earlier run wrote   *)
(* there is left, with or without an output directory.                     *)
C4_GenerateReplacesTheChartDirectory ==
    op = "generate_chart"
    => {p \in DOMAIN files : IsPrefix(chart_folder_path, p)}
       = {log[i].arg : i \in {j \in Steps : log[j].ev = "write"}}

(* C5 (as claimed): after install_chart returns, the chart folder is on    *)
(* disk exactly when keep_chart is set, with or without an output          *)
(* directory.                                                              *)
C5_InstallDeletesTheChartUnlessKept ==
    (op = "install_chart" /\ raised = "returned")
    => (chart_folder_path \in dirs <=> keep_chart)

(* The words of a command render the item <<key, value>> of a mapping. *)
Renders(command, item) ==
    \E j \in 1..Len(command) :
        /\ command[j] = "--" \o item[1]
        /\ Truthy(item[2]) => (j < Len(command) /\ command[j + 1] = item[2][1])

(* C6 (as claimed): uninstall_chart(options) on a release reported present *)
(* issues an uninstall command in which every key of the options appears   *)
(* as --key, followed by its value when it has one.                        *)
C6_UninstallCommandCarriesTheOptions ==
    (op = "uninstall_chart" /\ IsQuery(log[1], "present") /\ passed # None)
    => \E i \in Steps :
          /\ IsCmd(log[i], "uninstall")
          /\ \A k \in 1..Len(passed[1]) : Renders(log[i].arg, passed[1][k])

(* The command has the words -n <namespace> in it. *)
HasNamespaceFlag(command) ==
    \E j \in 1..(Len(command) - 1) :
        command[j] = "-n" /\ command[j + 1] = namespace[1]

NoNamespaceFlag(command) == \A j \in 1..Len(command) : command[j] # "-n"

(* C7 (as claimed): with a namespace configured every command issued       *)
(* during install_chart, upgrade_chart and uninstall_chart carries          *)
(* -n <namespace>, the dependency update command included; with none, no   *)
(* command carries it.                                                     *)
C7_EveryCommandCarriesTheNamespace ==
    \A i \in Steps :
        log[i].ev = "cmd"
        => IF namespace # None THEN HasNamespaceFlag(log[i].arg)
           ELSE NoNamespaceFlag(log[i].arg)

(* C7 (amended): with a namespace configured every install, upgrade and    *)
(* uninstall command carries -n <namespace>; the dependency update command *)
(* never carries it; with no namespace configured no command carries it.   *)
C7_ReleaseCommandsCarryTheNamespace ==
    \A i \in Steps :
        log[i].ev = "cmd"
        => IF namespace # None /\ ~IsCmd(log[i], "dependency")
           THEN HasNamespaceFlag(log[i].arg)
           ELSE NoNamespaceFlag(log[i].arg)

(* An upgrade in a namespace that issued both of its commands. *)
C7_Witness ==
    /\ op = "upgrade_chart"
    /\ namespace # None
    /\ \E i, j \in Steps : /\ i < j
                           /\ IsCmd(log[i], "dependency")
                           /\ IsCmd(log[j], "upgrade")
                           /\ HasNamespaceFlag(log[j].arg)

TemplateWrites ==
    SelectSeq(log, LAMBDA e : e.ev = "write" /\ IsPrefix(templates_directory, e.arg))

(* How many objects before the i-th are of its kind. *)
EarlierOfKind(i) ==
    Cardinality({j \in 1..(i - 1) : kubernetes_objects[j] = kubernetes_objects[i]})

(* C9: a call that generates the chart writes one template per object, in  *)
(* the order of the collection, the i-th under the name {kind}-{n}.yaml    *)
(* where n counts the earlier objects of the same kind; no two objects     *)
(* get the same name, and after generate_chart each file is on disk with   *)
(* its object in it.                                                       *)
C9_TemplatesAreNumberedPerKind ==
    (\E i \in Steps : log[i].ev = "makedirs")
    => /\ Len(TemplateWrites) = Len(kubernetes_objects)
       /\ \A i \in 1..Len(kubernetes_objects) :
             /\ TemplateWrites[i].arg =
                  templates_directory
                  \o <<kubernetes_objects[i] \o "-" \o ToString(EarlierOfKind(i))
                       \o ".yaml">>
             /\ \A j \in 1..Len(kubernetes_objects) :
                   i # j => TemplateWrites[i].arg # TemplateWrites[j].arg
             /\ op = "generate_chart"
                => /\ TemplateWrites[i].arg \in DOMAIN files
                   /\ files[TemplateWrites[i].arg] = <<kubernetes_objects[i]>>

(* Two objects of one kind, generated side by side. *)
C9_Witness ==
    /\ op = "generate_chart"
    /\ \E i, j \in 1..Len(kubernetes_objects) :
          /\ i < j
          /\ kubernetes_objects[i] = kubernetes_objects[j]
          /\ templates_directory \o <<kubernetes_objects[j] \o "-1.yaml">>
               \in DOMAIN files

(* What the cleaning is claimed to drop: null, the empty string, the empty *)
(* sequence and the empty mapping.                                         *)
ClaimedEmpty(value) ==
    \/ value.t = "none"
    \/ value.t = "str" /\ value.s = ""
    \/ value.t \in {"list", "dict"} /\ value.c = <<>>

(* The cleaning as claimed: every element and item is cleaned, a tagged   *)
(* object becoming its mapping, and is dropped if it is then empty;       *)
(* everything else stays where it was.                                    *)
RECURSIVE ClaimedClean(_)
ClaimedClean(value) ==
    IF value.t = "list"
    THEN ListValue(SelectSeq([i \in 1..Len(value.c) |-> ClaimedClean(value.c[i])],
                             LAMBDA x : ~ClaimedEmpty(x)))
    ELSE IF value.t \in {"dict", "obj"}
    THEN DictValue(SelectSeq([i \in 1..Len(value.c) |->
                                 Item(value.c[i].key, ClaimedClean(value.c[i].value))],
                             LAMBDA item : ~ClaimedEmpty(item.value)))
    ELSE value

(* C10 (as claimed): to_dict drops exactly the null, empty-string,         *)
(* empty-sequence and empty-mapping values, judged after cleaning, and     *)
(* keeps every other value, zero and false included, under its key or at   *)
(* its position.                                                           *)
C10_CleaningDropsOnlyNullAndEmpty ==
    out # None => out[1] = ClaimedClean(obj)

(* The value of an element of a list or of an item of a mapping. *)
EntryValue(value, i) == IF value.t = "list" THEN value.c[i] ELSE value.c[i].value

(* No element and no item value, at any depth, is null, the empty string, *)
(* an empty sequence or an empty mapping.                                  *)
RECURSIVE NoEmptyEntry(_)
NoEmptyEntry(value) ==
    \A i \in 1..Len(value.c) :
        /\ ~ClaimedEmpty(EntryValue(value, i))
        /\ NoEmptyEntry(EntryValue(value, i))

(* The attributes whose value is a container or a tagged object that has   *)
(* entries, none of which is left by the cleaning.                         *)
EmptiedAttributes ==
    {i \in 1..Len(obj.c) :
        /\ obj.c[i].value.t \in {"list", "dict", "obj"}
        /\ obj.c[i].value.c # <<>>
        /\ ClaimedEmpty(ClaimedClean(obj.c[i].value))}

(* C11: what to_dict returns has, at no depth, an element or an item value *)
(* that is null, the empty string, an empty sequence or an empty mapping,  *)
(* and it is a mapping of plain values; an attribute whose container or    *)
(* tagged object is emptied by its own cleaning has no key in the output.  *)
C11_OutputHasNoEmptyEntry ==
    out # None
    => /\ out[1].t = "dict"
       /\ NoEmptyEntry(out[1])
       /\ \A i \in EmptiedAttributes :
             \A j \in 1..Len(out[1].c) : out[1].c[j].key # obj.c[i].key

(* An object with an attribute that its cleaning empties, beside one that *)
(* stays, serialized.                                                      *)
C11_Witness ==
    /\ out # None
    /\ EmptiedAttributes # {}
    /\ out[1].c # <<>>

(* C12: the cleaning applied to a cleaned structure returns it as it is.   *)
C12_CleaningIsIdempotent ==
    [][(out # None /\ out' # None) => out' = out]_vars

(* A cleaned structure that has a container left in it, after an object   *)
(* that lost entries to the cleaning.                                      *)
C12_Witness ==
    /\ out # None
    /\ \E i \in 1..Len(out[1].c) : out[1].c[i].value.t \in {"list", "dict"}
    /\ out[1] # DictValue(obj.c)

(* The words of the install command after the chart path and the          *)
(* namespace flag: the rendered options.                                   *)
RenderedOptions(command) ==
    SubSeq(command, (IF namespace # None THEN 6 ELSE 4) + 1, Len(command))

(* How many of the first k items of a mapping have a non-empty value. *)
ValuesAmong(o, k) == Cardinality({j \in 1..k : Truthy(o[j][2])})

(* C13: the rendered options of a mapping are, item by item in insertion  *)
(* order, the word --key, followed by the value as the next word when the *)
(* value is non-empty and by nothing of the item when it is None or       *)
(* empty; no mapping at all renders as nothing.                            *)
C13_OptionsRenderInInsertionOrder ==
    \A i \in Steps :
        (op = "install_chart" /\ IsCmd(log[i], "install"))
        => LET words == RenderedOptions(log[i].arg)
           IN  IF passed = None THEN words = <<>>
               ELSE LET o == passed[1]
                    IN  /\ Len(words) = Len(o) + ValuesAmong(o, Len(o))
                        /\ \A k \in 1..Len(o) :
                              /\ words[k + ValuesAmong(o, k - 1)] = "--" \o o[k][1]
                              /\ Truthy(o[k][2])
                                 => words[k + ValuesAmong(o, k - 1) + 1] = o[k][2][1]

(* {wait: None, timeout: 30s} rendered as --wait --timeout 30s. *)
C13_Witness ==
    /\ op = "install_chart"
    /\ passed = Some(<<(<<"wait", None>>), (<<"timeout", Some("30s")>>)>>)
    /\ \E i \in Steps :
          /\ IsCmd(log[i], "install")
          /\ RenderedOptions(log[i].arg) = <<"--wait", "--timeout", "30s">>

(* The value at an address, read back from the heap. *)
RECURSIVE HeapValue(_, _)
HeapValue(h, a) ==
    [h[a] EXCEPT !.c = [i \in 1..Len(h[a].c) |->
                           IF h[a].t = "list" THEN HeapValue(h, h[a].c[i])
                           ELSE Item(h[a].c[i].key, HeapValue(h, h[a].c[i].value))]]

(* C14: a call of to_dict leaves every cell of the object as it was: the  *)
(* object itself and every object, mapping, sequence and scalar reachable *)
(* from it, the entries the output pruned included; read back from        *)
(* memory, the object is what it was before the call.                      *)
C14_SerializingDoesNotMutate ==
    [][/\ self' = self
       /\ \A a \in 1..self : heap'[a] = heap[a]
       /\ self > 0 => HeapValue(heap', self') = obj]_vars

(* An object holding a nested object, serialized into new cells, with *)
(* entries pruned from the output.                                     *)
C14_Witness ==
    /\ out # None
    /\ Len(heap) > self
    /\ \E i \in 1..Len(obj.c) : obj.c[i].value.t = "obj" /\ obj.c[i].value.c # <<>>
    /\ out[1] # DictValue(obj.c)
    /\ HeapValue(heap, self) = obj

(* C15: uninstall_chart on a release reported absent ends with the        *)
(* not-installed error and issues no command; and however uninstall_chart *)
(* ends, it takes no file system step and the files and directories are   *)
(* as they were before the call.                                           *)
C15_UninstallLeavesTheChartDirectory ==
    [][op' = "uninstall_chart"
       => /\ files' = files
          /\ dirs' = dirs
          /\ \A i \in 1..Len(log') : ~TouchesFiles(log'[i])
          /\ IsQuery(log'[1], "absent")
             => /\ raised' = "ChartNotInstalledError"
                /\ \A i \in 1..Len(log') : log'[i].ev # "cmd"]_vars

(* An uninstall of an absent release with the chart directory on disk. *)
C15_Witness ==
    /\ op = "uninstall_chart"
    /\ IsQuery(log[1], "absent")
    /\ raised = "ChartNotInstalledError"
    /\ chart_folder_path \in dirs
    /\ chart_yaml \in DOMAIN files

(* The caller passed a mapping with the dependency-update key in it. *)
PassedDependencyUpdate == passed # None /\ HasKey(passed[1], "dependency-update")

(* C16: in an upgrade_chart of a present release called with the          *)
(* dependency-update key, exactly one dependency update command is        *)
(* issued, against the chart path, after every file system step and every *)
(* dependency registration of the call and before the upgrade command,    *)
(* which follows when the update succeeded and has no --dependency-update *)
(* in it; called without the key, no dependency update command is issued. *)
C16_DependencyUpdateComesBeforeTheUpgrade ==
    (op = "upgrade_chart" /\ IsQuery(log[1], "present"))
    => IF PassedDependencyUpdate
       THEN \E i \in Steps :
               /\ log[i].ev = "cmd"
               /\ log[i].arg = <<"helm", "dependency", "update",
                                  PathStr(resolve(chart_folder_path))>>
               /\ \E j \in 1..(i - 1) : log[j].ev = "makedirs"
               /\ Cardinality({j \in 1..(i - 1) : log[j].ev = "add_repo"})
                    = Len(chart_info.dependencies)
               /\ \A j \in Steps :
                     /\ (TouchesFiles(log[j]) \/ log[j].ev = "add_repo") => j < i
                     /\ IsCmd(log[j], "dependency") => j = i
                     /\ IsCmd(log[j], "upgrade")
                        => /\ j > i
                           /\ \A k \in 1..Len(log[j].arg) :
                                 log[j].arg[k] # "--dependency-update"
               /\ log[i].res = "success"
                  => i < Len(log) /\ IsCmd(log[i + 1], "upgrade")
       ELSE \A j \in Steps : ~IsCmd(log[j], "dependency")

(* An upgrade with the key and another flag, of a chart with a dependency: *)
(* the update, then the upgrade with the other flag alone.                  *)
C16_Witness ==
    /\ op = "upgrade_chart"
    /\ PassedDependencyUpdate
    /\ Len(passed[1]) = 2
    /\ chart_info.dependencies # <<>>
    /\ \E i \in Steps :
          /\ IsCmd(log[i], "dependency")
          /\ i < Len(log)
          /\ IsCmd(log[i + 1], "upgrade")
          /\ Renders(log[i + 1].arg, <<"timeout", Some("30s")>>)

(* C17: when the install command of install_chart fails, the call ends    *)
(* with an error and takes no file system step after the command, so the  *)
(* generated chart directory and its files are on disk, keep_chart or     *)
(* not; a directory is removed after the install command only by a call   *)
(* that returns, with keep_chart false.                                    *)
C17_FailedInstallLeavesTheChartDirectory ==
    \A i \in Steps :
        (op = "install_chart" /\ IsCmd(log[i], "install"))
        => /\ log[i].res # "success"
              => /\ raised \in {"typed_error", "post_uninstall_error",
                                 "CalledProcessError", "ChartNotInstalledError"}
                 /\ \A j \in Steps : j > i => ~TouchesFiles(log[j])
                 /\ chart_folder_path \in dirs
                 /\ templates_directory \in dirs
                 /\ chart_yaml \in DOMAIN files
           /\ \A j \in Steps :
                 (j > i /\ log[j].ev = "rmtree")
                 => raised = "returned" /\ ~keep_chart

(* A failed install with keep_chart false, cleaned up by an uninstall. *)
C17_Witness ==
    /\ op = "install_chart"
    /\ ~keep_chart
    /\ raised = "post_uninstall_error"
    /\ chart_folder_path = <<chart_info.name>>
    /\ chart_folder_path \in dirs

(* C18: after an install command that failed unrecognisably, a release    *)
(* reported present to the failure handler is asked for again by          *)
(* uninstall_chart; if that second answer is absent, the call ends there  *)
(* with the not-installed error: no uninstall command, no generic error.  *)
C18_ReleaseGoneBetweenTheTwoQueries ==
    \A i \in Steps :
        (op = "install_chart" /\ IsCmd(log[i], "install")
            /\ log[i].res = "unknown_failure"
            /\ i < Len(log) /\ IsQuery(log[i + 1], "present"))
        => /\ i + 2 <= Len(log)
           /\ log[i + 2].ev = "is_installed"
           /\ IsQuery(log[i + 2], "absent")
              => /\ raised = "ChartNotInstalledError"
                 /\ Len(log) = i + 2
                 /\ \A j \in Steps : ~IsCmd(log[j], "uninstall")

(* Present to the handler, absent to uninstall_chart. *)
C18_Witness ==
    /\ op = "install_chart"
    /\ Len(log) >= 3
    /\ IsCmd(log[Len(log) - 2], "install")
    /\ IsQuery(log[Len(log) - 1], "present")
    /\ IsQuery(log[Len(log)], "absent")
    /\ raised = "ChartNotInstalledError"

(* The mapping the caller passed, without the dependency-update key. *)
PassedWithoutDependencyUpdate ==
    Some(SelectSeq(passed[1], LAMBDA item : item[1] # "dependency-update"))

(* C19 (as claimed): after an upgrade_chart that issued the dependency    *)
(* update command, the caller's mapping is the one passed without the     *)
(* dependency-update key; after install_chart and uninstall_chart it is   *)
(* the one passed.                                                         *)
C19_UpgradeRemovesTheKeyOnceReached ==
    /\ (op = "upgrade_chart" /\ \E i \in Steps : IsCmd(log[i], "dependency"))
       => options = PassedWithoutDependencyUpdate
    /\ op \in {"install_chart", "uninstall_chart"} => options = passed

(* C19 (amended): after an upgrade_chart whose dependency update command  *)
(* succeeded, the caller's mapping is the one passed without the          *)
(* dependency-update key, its other items as they were and in their       *)
(* order; after any other upgrade_chart, one whose dependency update      *)
(* command failed included, and after install_chart and uninstall_chart,  *)
(* it is the one passed.                                                   *)
C19_UpgradeRemovesTheKeyAfterTheUpdate ==
    /\ op = "upgrade_chart"
       => IF \E i \in Steps : IsCmd(log[i], "dependency") /\ log[i].res = "success"
          THEN PassedDependencyUpdate /\ options = PassedWithoutDependencyUpdate
          ELSE options = passed
    /\ op \in {"install_chart", "uninstall_chart"} => options = passed

(* An upgrade that took the key out of a mapping of two and left the other. *)
C19_Witness ==
    /\ op = "upgrade_chart"
    /\ PassedDependencyUpdate
    /\ \E i \in Steps : IsCmd(log[i], "dependency") /\ log[i].res = "success"
    /\ options = Some(<<(<<"timeout", Some("30s")>>)>>)

====
